---------------------------- MODULE Spec2Model ----------------------------
(***************************************************************************)
(* Hardware-shop ERP backend: the inventory ledger (create_purchase /      *)
(* create_sale and the stock movements they emit), item creation with its  *)
(* SKU lookup, payments, and the stock report that reconciles opening      *)
(* stock with the movement history.                                        *)
(*                                                                         *)
(* Conventions of the model                                                *)
(*  - A collection is the sequence of its documents in insertion order.    *)
(*  - An identifier string is a record [c, n]: the string of the n-th     *)
(*    ObjectId the store generated for collection c (ObjectIds are unique  *)
(*    over the whole store), or, with c = "malformed", a string that       *)
(*    bson.ObjectId() rejects.                                             *)
(*  - A quantity is a whole number of thousandths (5 units = 5000), so     *)
(*    round(x, 2) is a real conversion: Round2.                            *)
(*  - Each request handler runs in its own worker thread; a handler that   *)
(*    makes several store calls is one action per store call, so other     *)
(*    requests interleave between them.                                    *)
(***************************************************************************)
EXTENDS Integers, Sequences, FiniteSets

VARIABLES
    items,       \* collection "item"
    vendors,     \* collection "vendor"
    customers,   \* collection "customer"
    purchases,   \* collection "purchase"
    sales,       \* collection "sale"
    payments,    \* collection "payment"
    movements,   \* collection "stockmovement"
    reqs,        \* per worker: the request it is in the middle of
    rpt,         \* the stock_report call in progress (its items snapshot)
    lastReport,  \* what the last finished stock_report returned
    refused,     \* endpoints that have answered a request with HTTP 400
    returned     \* ids returned by finished create_purchase / create_sale calls

vars == <<items, vendors, customers, purchases, sales, payments, movements,
          reqs, rpt, lastReport, refused, returned>>

store == <<items, vendors, customers, purchases, sales, payments, movements>>

-----------------------------------------------------------------------------
(* Bounds of the model *)

\* documents the accepted requests may ask the store to hold, in total
MaxDocs == 5

\* lines of one purchase or sale request
MaxLines == 2

\* items, and movements, already in the store when a report-only run starts
MaxStored == 2

\* worker threads serving requests at the same time
Workers == {"w1", "w2"}

\* items, line quantities and amounts requests carry (thousandths): opening
\* stocks of 10, 0 and 0.004, which round(x, 2) does not keep; purchases of
\* 5 and sales of 3 per line
Catalogue == {[sku |-> "A", opening_stock |-> 10000],
              [sku |-> "A", opening_stock |-> 0],
              [sku |-> "B", opening_stock |-> 4]}
PurchaseQtys == {5000}
SaleQtys == {3000}
Amounts == {1000}

-----------------------------------------------------------------------------
(* Identifiers *)

\* "" : falsy in stock_report, rejected by ObjectId()
EmptyId == [c |-> "malformed", n |-> 0]

\* a non-empty string that is not 24 hex digits
BadId == [c |-> "malformed", n |-> 1]

\* bson.ObjectId(id_str) succeeds exactly on the strings of ObjectIds
WellFormed(id_str) == id_str.c # "malformed"

\* to_oid: the ObjectId, or HTTP 400.  No handler of main.py calls it.
to_oid(id_str) == IF WellFormed(id_str) THEN [ok |-> TRUE, oid |-> id_str]
                  ELSE [ok |-> FALSE, status |-> 400]

TotalDocs == Len(items) + Len(vendors) + Len(customers) + Len(purchases)
             + Len(sales) + Len(payments) + Len(movements)

\* the id the store gives the next document inserted into collection name
\* (docs), as a string
NewId(name, docs) == [c |-> name, n |-> Len(docs) + 1]

\* a well-formed id that names no document
GhostId == [c |-> "item", n |-> 0]

\* Optional[str] left at None
NoneId == [c |-> "none", n |-> 0]

Idle == [op |-> "idle"]

IsTx(r) == r.op \in {"create_purchase", "create_sale"}

\* documents the requests accepted so far ask the store to hold: one per
\* master record and payment, 1 + its line count per purchase or sale
RECURSIVE Asked(_, _)
Asked(txs, k) == IF k > Len(txs) THEN 0
                 ELSE 1 + Len(txs[k].items) + Asked(txs, k + 1)

Demand == Len(items) + Len(vendors) + Len(customers) + Len(payments)
          + Asked(purchases, 1) + Asked(sales, 1)
          + Cardinality({w \in Workers : reqs[w].op = "create_item"})

\* the model's capacity guard on a new request that asks for n documents
Room(n) == Demand + n <= MaxDocs

SeqsUpTo(S, n) == UNION {[1..k -> S] : k \in 0..n}

Range(s) == {s[k] : k \in 1..Len(s)}

ItemIds == {it.id : it \in Range(items)}

-----------------------------------------------------------------------------
(* Stock report: main.py stock_report *)

\* round(x, 2) on thousandths: to the nearest hundredth, half to even (the
\* quantities of the model never sum to a half)
Round2(x) ==
    LET a  == IF x < 0 THEN 0 - x ELSE x
        q  == a \div 10
        r  == a % 10
        up == r > 5 \/ (r = 5 /\ q % 2 = 1)
        m  == (IF up THEN q + 1 ELSE q) * 10
    IN  IF x < 0 THEN 0 - m ELSE m

\* qty_map.get(key, 0)
Get(qm, key) == IF key \in DOMAIN qm THEN qm[key] ELSE 0

\* qty_map[key] = v
Put(qm, key, v) == [k \in (DOMAIN qm) \cup {key} |-> IF k = key THEN v ELSE qm[k]]

\* the first loop starting every item at 0, opening_stock forgotten
OpeningMap_zero(qm, its, k) ==
    [key \in {its[j].id : j \in 1..Len(its)} |-> 0]

\* first loop: qty_map[str(_id)] = opening_stock, item by item
RECURSIVE OpeningMap(_, _, _)
OpeningMap(qm, its, k) ==
    IF k > Len(its) THEN qm
    ELSE OpeningMap(Put(qm, its[k].id, its[k].opening_stock), its, k + 1)

\* the loop body with else in place of elif type == "out"
ApplyMovement_else(qm, m) ==
    IF m.item_id = EmptyId THEN qm
    ELSE LET base == Put(qm, m.item_id, Get(qm, m.item_id))
         IN  IF m.type = "in" THEN Put(base, m.item_id, base[m.item_id] + m.qty)
             ELSE Put(base, m.item_id, base[m.item_id] - m.qty)

\* one pass of the movement loop body
ApplyMovement(qm, m) ==
    IF m.item_id = EmptyId THEN qm
    ELSE LET base == Put(qm, m.item_id, Get(qm, m.item_id))
         IN  IF m.type = "in" THEN Put(base, m.item_id, base[m.item_id] + m.qty)
             ELSE IF m.type = "out" THEN Put(base, m.item_id, base[m.item_id] - m.qty)
             ELSE base

\* second loop: the movements in collection order
RECURSIVE ApplyMovements(_, _, _)
ApplyMovements(qm, ms, k) ==
    IF k > Len(ms) THEN qm
    ELSE ApplyMovements(ApplyMovement(qm, ms[k]), ms, k + 1)

\* third loop: one record per item of the snapshot, in its order
ReportRows(its, qm) ==
    [k \in 1..Len(its) |->
        [item_id |-> its[k].id, sku |-> its[k].sku,
         on_hand |-> Round2(Get(qm, its[k].id))]]

ComputeStockReport(its, ms) ==
    ReportRows(its, ApplyMovements(OpeningMap(<<>>, its, 1), ms, 1))


-----------------------------------------------------------------------------
(* The handlers of main.py.  create_document(name, doc) inserts doc with a  *)
(* fresh _id and returns the id as a string; find_one reads.               *)

Init ==
    /\ items = <<>> /\ vendors = <<>> /\ customers = <<>>
    /\ purchases = <<>> /\ sales = <<>> /\ payments = <<>> /\ movements = <<>>
    /\ reqs = [w \in Workers |-> Idle]
    /\ rpt = [busy |-> FALSE]
    /\ lastReport = [out |-> <<>>, ver |-> -1, nth |-> "none"]
    /\ refused = {}
    /\ returned = {}

\* POST /items, up to the end of find_one: 400 when an item with the SKU is
\* found, otherwise the handler goes on to its insert
create_item_lookup(w, payload) ==
    /\ reqs[w] = Idle
    /\ LET existing == \E it \in Range(items) : it.sku = payload.sku
       IN  IF existing
           THEN /\ refused' = refused \cup {"create_item"}
                /\ UNCHANGED reqs
           ELSE /\ Room(1)
                /\ reqs' = [reqs EXCEPT ![w] = [op |-> "create_item", payload |-> payload]]
                /\ UNCHANGED refused
    /\ UNCHANGED <<store, rpt, lastReport, returned>>

\* POST /items, the insert and the response
create_item_insert(w) ==
    /\ reqs[w].op = "create_item"
    /\ items' = Append(items, [id |-> NewId("item", items), sku |-> reqs[w].payload.sku,
                               opening_stock |-> reqs[w].payload.opening_stock])
    /\ reqs' = [reqs EXCEPT ![w] = Idle]
    /\ UNCHANGED <<vendors, customers, purchases, sales, payments, movements,
                   rpt, lastReport, refused, returned>>

\* POST /vendors
create_vendor ==
    /\ Room(1)
    /\ vendors' = Append(vendors, [id |-> NewId("vendor", vendors)])
    /\ UNCHANGED <<items, customers, purchases, sales, payments, movements,
                   reqs, rpt, lastReport, refused, returned>>

\* POST /customers
create_customer ==
    /\ Room(1)
    /\ customers' = Append(customers, [id |-> NewId("customer", customers)])
    /\ UNCHANGED <<items, vendors, purchases, sales, payments, movements,
                   reqs, rpt, lastReport, refused, returned>>

\* the sale handler's movement pasted into the purchase handler
PurchaseMovement_pasted(line, purchase_id, id) ==
    [id |-> id, item_id |-> line.item_id, type |-> "out", qty |-> line.qty,
     reason |-> "sale", ref_type |-> "sale", ref_id |-> purchase_id]

\* the StockMovement create_purchase builds for one line
PurchaseMovement(line, purchase_id, id) ==
    [id |-> id, item_id |-> line.item_id, type |-> "in", qty |-> line.qty,
     reason |-> "purchase", ref_type |-> "purchase", ref_id |-> purchase_id]

\* the StockMovement create_sale builds for one line
SaleMovement(line, sale_id, id) ==
    [id |-> id, item_id |-> line.item_id, type |-> "out", qty |-> line.qty,
     reason |-> "sale", ref_type |-> "sale", ref_id |-> sale_id]

\* a handler that has made its last store call returns {"id": ...}
Finish(w, op, id) ==
    /\ reqs' = [reqs EXCEPT ![w] = Idle]
    /\ returned' = returned \cup {id}

\* POST /purchases, the insert of the purchase document
create_purchase(w, payload) ==
    /\ reqs[w] = Idle
    /\ Room(1 + Len(payload.items))
    /\ purchases' = Append(purchases,
           [id |-> NewId("purchase", purchases), vendor_id |-> payload.vendor_id, items |-> payload.items,
            payment_status |-> payload.payment_status])
    /\ IF payload.items = <<>>
       THEN Finish(w, "create_purchase", NewId("purchase", purchases))
       ELSE /\ reqs' = [reqs EXCEPT ![w] =
                 [op |-> "create_purchase", id |-> NewId("purchase", purchases),
                  lines |-> payload.items, i |-> 1]]
            /\ UNCHANGED returned
    /\ UNCHANGED <<items, vendors, customers, sales, payments, movements, rpt, lastReport, refused>>

\* POST /purchases, one pass of the loop over payload.items
create_purchase_line(w) ==
    /\ reqs[w].op = "create_purchase"
    /\ LET r == reqs[w]
       IN  /\ movements' = Append(movements, PurchaseMovement(r.lines[r.i], r.id, NewId("stockmovement", movements)))
           /\ IF r.i = Len(r.lines)
              THEN Finish(w, "create_purchase", r.id)
              ELSE /\ reqs' = [reqs EXCEPT ![w].i = r.i + 1]
                   /\ UNCHANGED returned
    /\ UNCHANGED <<items, vendors, customers, purchases, sales, payments, rpt, lastReport, refused>>

\* create_sale with a stock check: 400 when a line sells more than is on hand
create_sale_checked(w, payload) ==
    /\ reqs[w] = Idle
    /\ Room(1 + Len(payload.items))
    /\ LET qm == ApplyMovements(OpeningMap(<<>>, items, 1), movements, 1)
           short == \E i \in 1..Len(payload.items) :
                        payload.items[i].qty > Get(qm, payload.items[i].item_id)
       IN  IF short
           THEN /\ refused' = refused \cup {"create_sale"}
                /\ UNCHANGED <<sales, reqs, returned>>
           ELSE /\ sales' = Append(sales,
                      [id |-> NewId("sale", sales), customer_id |-> payload.customer_id,
                       items |-> payload.items, payment_status |-> payload.payment_status])
                /\ IF payload.items = <<>>
                   THEN Finish(w, "create_sale", NewId("sale", sales))
                   ELSE /\ reqs' = [reqs EXCEPT ![w] =
                             [op |-> "create_sale", id |-> NewId("sale", sales),
                              lines |-> payload.items, i |-> 1]]
                        /\ UNCHANGED returned
                /\ UNCHANGED refused
    /\ UNCHANGED <<items, vendors, customers, purchases, payments, movements, rpt, lastReport>>

\* POST /sales, the insert of the sale document
create_sale(w, payload) ==
    /\ reqs[w] = Idle
    /\ Room(1 + Len(payload.items))
    /\ sales' = Append(sales,
           [id |-> NewId("sale", sales), customer_id |-> payload.customer_id, items |-> payload.items,
            payment_status |-> payload.payment_status])
    /\ IF payload.items = <<>>
       THEN Finish(w, "create_sale", NewId("sale", sales))
       ELSE /\ reqs' = [reqs EXCEPT ![w] =
                 [op |-> "create_sale", id |-> NewId("sale", sales),
                  lines |-> payload.items, i |-> 1]]
            /\ UNCHANGED returned
    /\ UNCHANGED <<items, vendors, customers, purchases, payments, movements, rpt, lastReport, refused>>

\* the loop body writing the movement with an upsert keyed on item_id
create_sale_line_upsert(w) ==
    /\ reqs[w].op = "create_sale"
    /\ LET r == reqs[w]
           new == SaleMovement(r.lines[r.i], r.id, NewId("stockmovement", movements))
           hit == {k \in 1..Len(movements) : movements[k].item_id = new.item_id}
       IN  /\ movements' = IF hit = {} THEN Append(movements, new)
                           ELSE [movements EXCEPT ![CHOOSE k \in hit : TRUE] = new]
           /\ IF r.i = Len(r.lines)
              THEN Finish(w, "create_sale", r.id)
              ELSE /\ reqs' = [reqs EXCEPT ![w].i = r.i + 1]
                   /\ UNCHANGED returned
    /\ UNCHANGED <<items, vendors, customers, purchases, sales, payments, rpt, lastReport, refused>>

\* POST /sales, one pass of the loop over payload.items
create_sale_line(w) ==
    /\ reqs[w].op = "create_sale"
    /\ LET r == reqs[w]
       IN  /\ movements' = Append(movements, SaleMovement(r.lines[r.i], r.id, NewId("stockmovement", movements)))
           /\ IF r.i = Len(r.lines)
              THEN Finish(w, "create_sale", r.id)
              ELSE /\ reqs' = [reqs EXCEPT ![w].i = r.i + 1]
                   /\ UNCHANGED returned
    /\ UNCHANGED <<items, vendors, customers, purchases, sales, payments, rpt, lastReport, refused>>

\* create_payment reconciling: it marks the purchase it refers to as paid
create_payment_marks_paid(payload) ==
    /\ Room(1)
    /\ payments' = Append(payments, [id |-> NewId("payment", payments), ref_type |-> payload.ref_type,
                                     ref_id |-> payload.ref_id, amount |-> payload.amount])
    /\ purchases' = [k \in 1..Len(purchases) |->
                        IF purchases[k].id = payload.ref_id
                        THEN [purchases[k] EXCEPT !.payment_status = "paid"]
                        ELSE purchases[k]]
    /\ UNCHANGED <<items, vendors, customers, sales, movements,
                   reqs, rpt, lastReport, refused, returned>>

\* POST /payments
create_payment(payload) ==
    /\ Room(1)
    /\ payments' = Append(payments, [id |-> NewId("payment", payments), ref_type |-> payload.ref_type,
                                     ref_id |-> payload.ref_id, amount |-> payload.amount])
    /\ UNCHANGED <<items, vendors, customers, purchases, sales, movements,
                   reqs, rpt, lastReport, refused, returned>>

\* the failure handled with a rollback: the transaction and its movements
\* are deleted
create_document_fails_rollback(w) ==
    /\ reqs[w] # Idle
    /\ reqs' = [reqs EXCEPT ![w] = Idle]
    /\ IF IsTx(reqs[w])
       THEN /\ purchases' = SelectSeq(purchases, LAMBDA t : t.id # reqs[w].id)
            /\ sales' = SelectSeq(sales, LAMBDA t : t.id # reqs[w].id)
            /\ movements' = SelectSeq(movements, LAMBDA m : m.ref_id # reqs[w].id)
       ELSE UNCHANGED <<purchases, sales, movements>>
    /\ UNCHANGED <<items, vendors, customers, payments, rpt, lastReport, refused, returned>>

\* a store call of a handler in progress raises (store unreachable, process
\* killed): no handler catches it, the request ends there
create_document_fails(w) ==
    /\ reqs[w] # Idle
    /\ reqs' = [reqs EXCEPT ![w] = Idle]
    /\ UNCHANGED <<store, rpt, lastReport, refused, returned>>

\* GET /stock, items = list(coll("item").find({}))
stock_report_items ==
    /\ ~rpt.busy
    /\ rpt' = [busy |-> TRUE, items |-> items, ver |-> TotalDocs]
    /\ UNCHANGED <<store, reqs, lastReport, refused, returned>>

\* the report list kept at module level: each call appends to the last one
stock_report_kept ==
    /\ rpt.busy
    /\ lastReport' = [out |-> lastReport.out \o ComputeStockReport(rpt.items, movements),
                      ver |-> rpt.ver,
                      nth |-> IF lastReport.nth = "none" THEN "first" ELSE "later"]
    /\ rpt' = [busy |-> FALSE]
    /\ UNCHANGED <<store, reqs, refused, returned>>

\* GET /stock, movements = list(coll("stockmovement").find({})) and the rest
stock_report ==
    /\ rpt.busy
    /\ lastReport' = [out |-> ComputeStockReport(rpt.items, movements),
                      ver |-> rpt.ver,
                      nth |-> IF lastReport.nth = "none" THEN "first" ELSE "later"]
    /\ rpt' = [busy |-> FALSE]
    /\ UNCHANGED <<store, reqs, refused, returned>>

\* GET /items, /vendors, /customers, /purchases, /sales, /payments
list_documents ==
    UNCHANGED vars

-----------------------------------------------------------------------------
(* Requests clients send *)

ItemPayloads == Catalogue

\* a reference is an id the store handed out for that collection, or a string
\* that is no ObjectId
Lines(qtys) == [item_id : ItemIds \cup {BadId}, qty : qtys]

PurchasePayloads ==
    [vendor_id : {v.id : v \in Range(vendors)} \cup {BadId},
     items : SeqsUpTo(Lines(PurchaseQtys), MaxLines), payment_status : {"unpaid"}]

SalePayloads ==
    [customer_id : {c.id : c \in Range(customers)} \cup {BadId},
     items : SeqsUpTo(Lines(SaleQtys), MaxLines), payment_status : {"unpaid"}]

PaymentPayloads ==
    {[ref_type |-> t.c, ref_id |-> t, amount |-> a] :
        t \in {p.id : p \in Range(purchases)} \cup {x.id : x \in Range(sales)},
        a \in Amounts}
    \cup [ref_type : {"purchase"}, ref_id : {BadId}, amount : Amounts]

\* The write side of the API.  GET /stock writes to no collection; its two
\* reads are the steps of SpecReport below, and what it returns when served
\* in a state of Spec is ComputeStockReport(items, movements).
Next ==
    \/ \E w \in Workers, p \in ItemPayloads : create_item_lookup(w, p)
    \/ \E w \in Workers : create_item_insert(w)
    \/ create_vendor
    \/ create_customer
    \/ \E w \in Workers, p \in PurchasePayloads : create_purchase(w, p)
    \/ \E w \in Workers : create_purchase_line(w)
    \/ \E w \in Workers, p \in SalePayloads : create_sale(w, p)
    \/ \E w \in Workers : create_sale_line(w)
    \/ \E p \in PaymentPayloads : create_payment(p)
    \/ \E w \in Workers : create_document_fails(w)
    \/ list_documents

Spec == Init /\ [][Next]_vars

-----------------------------------------------------------------------------
(* Report-only runs: the store already holds items and movements, written  *)
(* by this API or by hand (the schema's reasons "opening", "adjust",       *)
(* "return" are written by no endpoint), and clients call GET /stock and   *)
(* nothing else.                                                           *)

StoredItems(ps) ==
    [k \in 1..Len(ps) |-> [id |-> [c |-> "item", n |-> k], sku |-> ps[k].sku,
                           opening_stock |-> ps[k].opening_stock]]

StoredMovements(ms) ==
    [k \in 1..Len(ms) |->
        [id |-> [c |-> "stockmovement", n |-> k], item_id |-> ms[k].item_id,
         type |-> ms[k].type, qty |-> ms[k].qty, reason |-> "adjust",
         ref_type |-> NoneId, ref_id |-> NoneId]]

StoredMovementShapes ==
    [item_id : {[c |-> "item", n |-> 1], GhostId, EmptyId},
     type : {"in", "out", "adjust"}, qty : PurchaseQtys]

InitReport ==
    /\ items \in {StoredItems(ps) : ps \in SeqsUpTo(Catalogue, MaxStored)}
    /\ movements \in {StoredMovements(ms) : ms \in SeqsUpTo(StoredMovementShapes, MaxStored)}
    /\ vendors = <<>> /\ customers = <<>>
    /\ purchases = <<>> /\ sales = <<>> /\ payments = <<>>
    /\ reqs = [w \in Workers |-> Idle]
    /\ rpt = [busy |-> FALSE]
    /\ lastReport = [out |-> <<>>, ver |-> -1, nth |-> "none"]
    /\ refused = {}
    /\ returned = {}

NextReport ==
    \/ stock_report_items
    \/ stock_report

SpecReport == InitReport /\ [][NextReport]_vars


-----------------------------------------------------------------------------
(* Vocabulary of the properties *)

TxDocs == Range(purchases) \cup Range(sales)

TxIds == {t.id : t \in TxDocs}

TxDoc(id) == CHOOSE t \in TxDocs : t.id = id

InFlight == {reqs[w].id : w \in {v \in Workers : IsTx(reqs[v])}}

\* the movements carrying ref_id = id, in insertion order
RefMovements(id) == SelectSeq(movements, LAMBDA m : m.ref_id = id)

\* movement m is the one the handler of transaction id builds for line
MatchesLine(m, id, line) ==
    /\ m.item_id = line.item_id
    /\ m.qty = line.qty
    /\ m.ref_id = id
    /\ IF id.c = "purchase"
       THEN m.type = "in" /\ m.reason = "purchase" /\ m.ref_type = "purchase"
       ELSE m.type = "out" /\ m.reason = "sale" /\ m.ref_type = "sale"

IsPrefix(s, t) == Len(s) <= Len(t) /\ \A k \in 1..Len(s) : s[k] = t[k]

\* every accepted purchase and sale request has run to completion
AllDone == TxIds \subseteq returned

RECURSIVE SumQty(_, _, _)
SumQty(lines, item, k) ==
    IF k > Len(lines) THEN 0
    ELSE (IF lines[k].item_id = item THEN lines[k].qty ELSE 0) + SumQty(lines, item, k + 1)

\* total quantity over the lines of the documents txs that name item
RECURSIVE SumLines(_, _, _)
SumLines(txs, item, k) ==
    IF k > Len(txs) THEN 0
    ELSE SumQty(txs[k].items, item, 1) + SumLines(txs, item, k + 1)

Expected(it) ==
    it.opening_stock + SumLines(purchases, it.id, 1) - SumLines(sales, it.id, 1)

\* what GET /stock returns when served in the current state
ReportNow == ComputeStockReport(items, movements)

-----------------------------------------------------------------------------
(* C1 - Movement-count invariant: once create_purchase / create_sale has    *)
(* returned an id for a request with N lines, exactly N movements carry    *)
(* that ref_id, now and ever after; the i-th of them, in insertion order,  *)
(* has the i-th line's item_id and qty, and type/reason/ref_type are       *)
(* in/purchase/purchase for a purchase, out/sale/sale for a sale.          *)
C1_MovementCount ==
    \A id \in returned :
        /\ id \in TxIds
        /\ LET ms == RefMovements(id)
               lines == TxDoc(id).items
           IN  /\ Len(ms) = Len(lines)
               /\ \A i \in 1..Len(lines) : MatchesLine(ms[i], id, lines[i])

\* a returned two-line purchase whose two movements are not adjacent in the
\* collection: a sale's movement went in between
C1_Witness ==
    \E id \in returned :
        /\ id.c = "purchase"
        /\ Len(TxDoc(id).items) = 2
        /\ \E i, j \in 1..Len(movements) :
              /\ j > i + 1
              /\ movements[i].ref_id = id /\ movements[j].ref_id = id
              /\ movements[i + 1].ref_type = "sale"

-----------------------------------------------------------------------------
(* C2 - Stock conservation.  As claimed: once every accepted purchase and   *)
(* sale request has completed, GET /stock reports for every item an        *)
(* on_hand equal to its opening_stock plus the quantities of the purchase  *)
(* lines naming it minus those of the sale lines naming it.                *)
C2_ConservationExact ==
    AllDone =>
        \A k \in 1..Len(items) : ReportNow[k].on_hand = Expected(items[k])

(* C2 as amended: the reported on_hand is that sum rounded to two decimal  *)
(* places (round(x, 2)), so it equals the sum exactly only when the sum    *)
(* has no more than two decimals.                                          *)
C2_ConservationRounded ==
    AllDone =>
        /\ Len(ReportNow) = Len(items)
        /\ \A k \in 1..Len(items) :
              /\ ReportNow[k].item_id = items[k].id
              /\ ReportNow[k].on_hand = Round2(Expected(items[k]))

\* opening 10, a completed purchase of 5 and a completed sale of 3 of the
\* item: the report says 12
C2_Witness ==
    /\ AllDone
    /\ \E k \in 1..Len(items) :
          /\ items[k].opening_stock = 10000
          /\ SumLines(purchases, items[k].id, 1) = 5000
          /\ SumLines(sales, items[k].id, 1) = 3000
          /\ ReportNow[k].on_hand = 12000

-----------------------------------------------------------------------------
(* C3 - SKU uniqueness: in every reachable state no two persisted items     *)
(* have the same SKU, whatever the schedule of create_item requests.       *)
C3_SkuUnique ==
    \A i, j \in 1..Len(items) : i # j => items[i].sku # items[j].sku

-----------------------------------------------------------------------------
(* C4 - Malformed reference identifiers are rejected: no purchase, sale or  *)
(* payment whose vendor_id, customer_id, line item_id or ref_id is not a   *)
(* well-formed identifier is ever persisted, and no stock movement with    *)
(* such an item_id.                                                        *)
C4_MalformedRejected ==
    /\ \A p \in Range(purchases) :
          /\ WellFormed(p.vendor_id)
          /\ \A i \in 1..Len(p.items) : WellFormed(p.items[i].item_id)
    /\ \A x \in Range(sales) :
          /\ WellFormed(x.customer_id)
          /\ \A i \in 1..Len(x.items) : WellFormed(x.items[i].item_id)
    /\ \A y \in Range(payments) : WellFormed(y.ref_id)
    /\ \A m \in Range(movements) : WellFormed(m.item_id)

-----------------------------------------------------------------------------
(* C5 - The ledger is append-only: every step keeps every stock movement,   *)
(* purchase and sale already persisted, unchanged and in place; a step     *)
(* that changes the movement collection appends exactly one movement, the  *)
(* one a create_purchase / create_sale in progress builds for its next     *)
(* line.                                                                   *)
C5_AppendOnly ==
    [][/\ IsPrefix(movements, movements')
       /\ IsPrefix(purchases, purchases')
       /\ IsPrefix(sales, sales')
       /\ movements' # movements =>
            /\ Len(movements') = Len(movements) + 1
            /\ \E w \in Workers :
                  /\ IsTx(reqs[w])
                  /\ MatchesLine(movements'[Len(movements')], reqs[w].id,
                                 reqs[w].lines[reqs[w].i])]_vars

\* an item, and a ledger holding a purchase's and then a sale's movement
C5_Witness ==
    /\ items # <<>>
    /\ \E i, j \in 1..Len(movements) :
          i < j /\ movements[i].type = "in" /\ movements[j].type = "out"

-----------------------------------------------------------------------------
(* C7 - No stock-level validation at sale time: create_sale never answers   *)
(* a request with a rejection, and once the accepted requests have         *)
(* completed an item sold beyond its stock is reported with the (rounded)  *)
(* negative balance.                                                       *)
C7_NoStockValidation ==
    /\ "create_sale" \notin refused
    /\ AllDone =>
          \A k \in 1..Len(items) :
              Expected(items[k]) < 0 =>
                  /\ ReportNow[k].on_hand = Round2(Expected(items[k]))
                  /\ ReportNow[k].on_hand <= 0

\* an item with opening stock 0 and no purchase, a completed sale of 3 of it:
\* the report says -3
C7_Witness ==
    \E k \in 1..Len(items) :
        /\ items[k].opening_stock = 0
        /\ SumLines(purchases, items[k].id, 1) = 0
        /\ \E x \in Range(sales) :
              /\ x.id \in returned
              /\ \E i \in 1..Len(x.items) : x.items[i].item_id = items[k].id
        /\ AllDone
        /\ ReportNow[k].on_hand = 0 - 3000

-----------------------------------------------------------------------------
(* C8 - create_payment only appends one Payment record: a step that changes *)
(* the payment collection appends one document to it and leaves items,     *)
(* vendors, customers, purchases (payment_status included), sales and      *)
(* movements as they were, so GET /stock returns what it returned before.  *)
C8_PaymentFrame ==
    [][payments' # payments =>
         /\ Len(payments') = Len(payments) + 1
         /\ IsPrefix(payments, payments')
         /\ UNCHANGED <<items, vendors, customers, purchases, sales, movements>>
         /\ ComputeStockReport(items', movements') = ReportNow]_vars

\* a payment recorded against a persisted purchase, which is still "unpaid"
C8_Witness ==
    \E y \in Range(payments) :
        \E p \in Range(purchases) :
            y.ref_type = "purchase" /\ y.ref_id = p.id /\ p.payment_status = "unpaid"

-----------------------------------------------------------------------------
(* C10 - Partial-failure shape: in every reachable state each movement's    *)
(* ref_id names a persisted transaction, and the movements carrying a      *)
(* transaction's id are, in order, the movements of a prefix of its lines  *)
(* (so never more than its line count); and no step removes a persisted    *)
(* transaction or any of its movements.                                    *)
C10_Shape ==
    /\ \A m \in Range(movements) : m.ref_id \in TxIds
    /\ \A t \in TxDocs :
          LET ms == RefMovements(t.id)
          IN  /\ Len(ms) <= Len(t.items)
              /\ \A i \in 1..Len(ms) : MatchesLine(ms[i], t.id, t.items[i])

C10_NoCompensation ==
    /\ TxDocs \subseteq TxDocs'
    /\ \A id \in TxIds : IsPrefix(RefMovements(id), RefMovements(id)')

C10_PartialFailure == [] C10_Shape /\ [][C10_NoCompensation]_vars

\* a persisted transaction whose handler failed after its first movement:
\* not returned, not in progress, fewer movements than lines
C10_Witness ==
    \E t \in TxDocs :
        /\ t.id \notin returned
        /\ t.id \notin InFlight
        /\ Len(RefMovements(t.id)) > 0
        /\ Len(RefMovements(t.id)) < Len(t.items)

-----------------------------------------------------------------------------
(* C6 - The report is driven by the item set: it holds exactly one record   *)
(* per persisted item, in item order; movements whose item_id names no     *)
(* item, and movements whose type is neither "in" nor "out", change no     *)
(* on_hand: the report is what it would be without them, each on_hand the  *)
(* rounded balance of the item's own in and out movements.                 *)
Relevant(ms) ==
    SelectSeq(ms, LAMBDA m : m.item_id \in ItemIds /\ m.type \in {"in", "out"})

RECURSIVE Balance(_, _, _)
Balance(ms, item, k) ==
    IF k > Len(ms) THEN 0
    ELSE (IF ms[k].item_id # item THEN 0
          ELSE IF ms[k].type = "in" THEN ms[k].qty
          ELSE IF ms[k].type = "out" THEN 0 - ms[k].qty
          ELSE 0) + Balance(ms, item, k + 1)

C6_ReportRows(out) ==
    /\ Len(out) = Len(items)
    /\ \A k \in 1..Len(items) :
          /\ out[k].item_id = items[k].id
          /\ out[k].on_hand = Round2(items[k].opening_stock + Balance(movements, items[k].id, 1))
    /\ out = ComputeStockReport(items, Relevant(movements))

C6_ReportDrivenByItems ==
    /\ C6_ReportRows(ReportNow)
    /\ lastReport.nth # "none" => C6_ReportRows(lastReport.out)

\* a report returned from a store holding an item, a movement on an id that
\* is no item and a movement of type "adjust" on the item
C6_Witness ==
    /\ lastReport.nth # "none"
    /\ items # <<>>
    /\ \E m \in Range(movements) : m.item_id \notin ItemIds /\ m.item_id # EmptyId
    /\ \E m \in Range(movements) : m.item_id \in ItemIds /\ m.type = "adjust"

-----------------------------------------------------------------------------
(* C9 - Idempotent, read-only report: no step of stock_report changes a     *)
(* collection; a call that sees no write returns the report of the current *)
(* items and movements, and the same output as the call before it when no  *)
(* write has happened since that call began.                               *)
C9_ReadOnlyIdempotent ==
    [][(rpt' # rpt \/ lastReport' # lastReport) =>
         /\ store' = store
         /\ (rpt.busy /\ ~rpt'.busy /\ rpt.ver = TotalDocs) =>
               /\ lastReport'.out = ReportNow
               /\ (lastReport.nth # "none" /\ lastReport.ver = TotalDocs) =>
                     lastReport'.out = lastReport.out]_vars

\* a second report returned, from a store holding items and movements
C9_Witness ==
    /\ lastReport.nth = "later"
    /\ lastReport.out # <<>>
    /\ movements # <<>>

=============================================================================
